---- MODULE Spec2Model ----
(***************************************************************************)
(* WebOSC (src/app.py): a Flask front-end over the Open Shop Channel       *)
(* package registry.  The module-level code builds the registry handle and *)
(* loads it, then the server dispatches each request to one of five view   *)
(* functions or to the 404 / 500 error handlers.                           *)
(*                                                                         *)
(* A rendered page is kept symbolically as the render_template call that   *)
(* produced it: the template name and the keyword arguments.  Optional     *)
(* values (Python's None) are sequences of length 0 or 1.                  *)
(***************************************************************************)
EXTENDS Naturals, Sequences, FiniteSets

\* Number of requests the server accepts in one run (request ids 1..MaxReq).
MaxReq == 2
\* Largest number of packages the registry holds after load_packages.
MaxPkgs == 2

VARIABLES
    proc,             \* position of the process in the module-level code
    OpenShopChannel,  \* the registry handle: [loaded, packages]
    load_calls,       \* how many times load_packages has been invoked
    arrivals,         \* how many requests have been accepted so far
    pc,               \* per request: where its handling stands
    req,              \* per request: [path, args]
    outcome,          \* per request: "none" | "returned" | "raised" (registry call)
    local,            \* per request: the value its registry call returned
    reg_calls,        \* per request: sequence of registry methods called
    rendered,         \* per request: sequence of templates rendered
    response,         \* per request: [status, body] once done
    errors_before     \* per request: error outcomes completed before it arrived

vars == <<proc, OpenShopChannel, load_calls, arrivals, pc, req, outcome, local,
          reg_calls, rendered, response, errors_before>>

ReqIds == 1..MaxReq

(***************************************************************************)
(* Values                                                                  *)
(***************************************************************************)
None == <<>>
Some(v) == <<v>>

Package(internal, display) == [internal_name |-> internal, display_name |-> display]

PackagePool ==
    { Package("hbb", "Homebrew Browser"),
      Package("wiixplorer", "WiiXplorer") }

\* Every registry content load_packages may leave: the sequences of distinct
\* packages of length at most MaxPkgs.
RECURSIVE SeqsUpTo(_)
SeqsUpTo(n) ==
    IF n = 0 THEN { <<>> }
    ELSE LET shorter == SeqsUpTo(n - 1)
         IN  shorter \cup
             { Append(s, p) : s \in { t \in shorter : Len(t) = n - 1 },
                              p \in PackagePool }
Distinct(s) == \A i, j \in 1..Len(s) : s[i] = s[j] => i = j
Catalogs == { s \in SeqsUpTo(MaxPkgs) : Distinct(s) }

Paths == { "/", "/home", "/apps", "/patches", "/app", "/nowhere" }
\* The query string: no 'package' parameter, or one with the given value.
NoArgs == [k \in {} |-> ""]
QueryArgs == { NoArgs } \cup { [package |-> v] : v \in { "", "hbb", "nonexistent" } }
\* Only /app reads the query string; the other paths are tried without one and
\* with one.
Requests ==
    { q \in [path : Paths, args : QueryArgs] :
        q.path = "/app" \/ q.args \in { NoArgs, [package |-> "hbb"] } }

NoRequest == [path |-> "", args |-> NoArgs]
NoResponse == [status |-> 0, body |-> [template |-> "", context |-> [k \in {} |-> ""]]]

(***************************************************************************)
(* Collaborators                                                           *)
(***************************************************************************)
\* Mutant: the view reads a parameter the client never sends ('name').
args_get_wrong_key(r, key) == None

\* request.args.get(key): the parameter's value, or None when it is absent.
args_get(r, key) == IF key \in DOMAIN req[r].args THEN Some(req[r].args[key]) ELSE None

\* Mutant: 'if package is True', an identity test no Package passes.
IsTrue(v) == FALSE

\* Python's truth test: None is false, and so is a mapping without entries.
Truthy(v) == v /= None /\ DOMAIN v[1] /= {}

\* str.format("{}") of an optional string: None prints as "None".
str(v) == IF v = None THEN "None" ELSE v[1]

\* render_template(template, **context)
render_template(template, context) == [template |-> template, context |-> context]

\* The view's return value is a bare string: the framework answers with it
\* under its default status.
make_response(rv) == [status |-> 200, body |-> rv]

\* Registry: the full package sequence.
get_packages == OpenShopChannel.packages

\* Registry: the first package with that internal name, or None.
package_by_name(name) ==
    LET pk == OpenShopChannel.packages
        hits == { i \in 1..Len(pk) : name /= None /\ pk[i].internal_name = name[1] }
    IN  IF hits = {} THEN None
        ELSE Some(pk[CHOOSE i \in hits : \A j \in hits : i <= j])

\* URL map built by the @app.route decorators; anything else is NotFound.
Route(path) ==
    CASE path = "/"        -> "welcome"
      [] path = "/home"    -> "home"
      [] path = "/apps"    -> "apps"
      [] path = "/patches" -> "patches"
      [] path = "/app"     -> "application"
      [] OTHER             -> "abort404"

(***************************************************************************)
(* Startup                                                                 *)
(***************************************************************************)
Init ==
    /\ proc = "boot"
    /\ OpenShopChannel = [loaded |-> FALSE, packages |-> <<>>]
    /\ load_calls = 0
    /\ arrivals = 0
    /\ pc = [r \in ReqIds |-> "idle"]
    /\ req = [r \in ReqIds |-> NoRequest]
    /\ outcome = [r \in ReqIds |-> "none"]
    /\ local = [r \in ReqIds |-> None]
    /\ reg_calls = [r \in ReqIds |-> <<>>]
    /\ rendered = [r \in ReqIds |-> <<>>]
    /\ response = [r \in ReqIds |-> NoResponse]
    /\ errors_before = [r \in ReqIds |-> 0]

reqvars == <<arrivals, pc, req, outcome, local, reg_calls, rendered, response,
             errors_before>>

\* OpenShopChannel = osc.API()
construct ==
    /\ proc = "boot"
    /\ proc' = "constructed"
    /\ UNCHANGED <<OpenShopChannel, load_calls, reqvars>>

\* OpenShopChannel.load_packages(): fills the registry, or raises and ends
\* the process before the application object exists.
load_packages ==
    /\ proc = "constructed"
    /\ load_calls' = load_calls + 1
    /\ \/ \E c \in Catalogs :
            /\ OpenShopChannel' = [loaded |-> TRUE, packages |-> c]
            /\ proc' = "loaded"
       \/ /\ proc' = "crashed"
          /\ UNCHANGED OpenShopChannel
    /\ UNCHANGED reqvars

\* Mutant: the server is started without waiting for the load.
run_before_load ==
    /\ proc \in { "constructed", "loaded" }
    /\ proc' = "serving"
    /\ UNCHANGED <<OpenShopChannel, load_calls, reqvars>>

\* app = Flask(__name__) ... app.run()
run ==
    /\ proc = "loaded"
    /\ proc' = "serving"
    /\ UNCHANGED <<OpenShopChannel, load_calls, reqvars>>

(***************************************************************************)
(* Request handling                                                        *)
(***************************************************************************)
IsError(r) ==
    /\ pc[r] = "done"
    /\ response[r].body.template = "error.html"

\* The server accepts the next request and routes it.
Accept(r) ==
    /\ proc = "serving"
    /\ r = arrivals + 1
    /\ pc[r] = "idle"
    /\ \E q \in Requests :
          /\ req' = [req EXCEPT ![r] = q]
          /\ pc' = [pc EXCEPT ![r] = Route(q.path)]
    /\ arrivals' = r
    /\ errors_before' = [errors_before EXCEPT ![r] = Cardinality({ s \in ReqIds : IsError(s) })]
    /\ UNCHANGED <<proc, OpenShopChannel, load_calls, outcome, local, reg_calls,
                   rendered, response>>

\* A view or error handler returns render_template(template, **context).
Return(r, template, context) ==
    /\ rendered' = [rendered EXCEPT ![r] = Append(@, template)]
    /\ response' = [response EXCEPT ![r] = make_response(render_template(template, context))]
    /\ pc' = [pc EXCEPT ![r] = "done"]

\* A registry call made by request r: it returns value, or it raises and the
\* framework turns the exception into a 500.
Call(r, method, value, next) ==
    /\ reg_calls' = [reg_calls EXCEPT ![r] = Append(@, method)]
    /\ \/ /\ outcome' = [outcome EXCEPT ![r] = "returned"]
          /\ local' = [local EXCEPT ![r] = value]
          /\ pc' = [pc EXCEPT ![r] = next]
       \/ /\ outcome' = [outcome EXCEPT ![r] = "raised"]
          /\ pc' = [pc EXCEPT ![r] = "abort500"]
          /\ UNCHANGED local

\* welcome(): return render_template('welcome.html')
welcome(r) ==
    /\ pc[r] = "welcome"
    /\ Return(r, "welcome.html", [k \in {} |-> ""])
    /\ UNCHANGED <<proc, OpenShopChannel, load_calls, arrivals, req, outcome, local,
                   reg_calls, errors_before>>

HandlerFrame == <<proc, OpenShopChannel, load_calls, arrivals, req, errors_before>>

\* Mutant: the view takes the list by popping the registry's own list.
home_pop_packages(r) ==
    /\ pc[r] = "home"
    /\ Call(r, "get_packages", get_packages, "home_render")
    /\ OpenShopChannel' = [OpenShopChannel EXCEPT !.packages =
                               IF @ = <<>> THEN @ ELSE Tail(@)]
    /\ UNCHANGED <<proc, load_calls, arrivals, req, errors_before, rendered, response>>

\* home(): the argument OpenShopChannel.get_packages() is evaluated first
home_get_packages(r) ==
    /\ pc[r] = "home"
    /\ Call(r, "get_packages", get_packages, "home_render")
    /\ UNCHANGED <<HandlerFrame, rendered, response>>

\* home(): return render_template('home.html', packages=...)
home(r) ==
    /\ pc[r] = "home_render"
    /\ Return(r, "home.html", [packages |-> local[r]])
    /\ UNCHANGED <<HandlerFrame, outcome, local, reg_calls>>

\* apps(): the argument OpenShopChannel.get_packages() is evaluated first
apps_get_packages(r) ==
    /\ pc[r] = "apps"
    /\ Call(r, "get_packages", get_packages, "apps_render")
    /\ UNCHANGED <<HandlerFrame, rendered, response>>

\* Mutant: the listing view renders the home template (a copied line).
apps_home_template(r) ==
    /\ pc[r] = "apps_render"
    /\ Return(r, "home.html", [packages |-> local[r]])
    /\ UNCHANGED <<HandlerFrame, outcome, local, reg_calls>>

\* apps(): return render_template('list.html', packages=...)
apps(r) ==
    /\ pc[r] = "apps_render"
    /\ Return(r, "list.html", [packages |-> local[r]])
    /\ UNCHANGED <<HandlerFrame, outcome, local, reg_calls>>

PatchWarning ==
    "Many patches could damage or brick your system. The Open Shop Channel is not responsbile for any damages to your Wii."

\* Mutant: the warning page echoes the query parameter.
patches_echo(r) ==
    /\ pc[r] = "patches"
    /\ Return(r, "warning.html",
              [code |-> "PATCH-WARN",
               description |-> <<PatchWarning, str(args_get(r, "package"))>>])
    /\ UNCHANGED <<HandlerFrame, outcome, local, reg_calls>>

\* patches(): return render_template('warning.html', code=..., description=...)
patches(r) ==
    /\ pc[r] = "patches"
    /\ Return(r, "warning.html", [code |-> "PATCH-WARN", description |-> <<PatchWarning>>])
    /\ UNCHANGED <<HandlerFrame, outcome, local, reg_calls>>

\* application(): package = OpenShopChannel.package_by_name(request.args.get("package"))
application_package_by_name(r) ==
    /\ pc[r] = "application"
    /\ Call(r, "package_by_name", package_by_name(args_get(r, "package")), "application_render")
    /\ UNCHANGED <<HandlerFrame, rendered, response>>

\* "The app \"{}\" (Internal Name) could not be found.".format(name), kept as
\* the text before the placeholder, the formatted value and the text after it.
AppNotFound(name) ==
    << "The app \"", str(name), "\" (Internal Name) could not be found." >>

\* Mutant: the not-found branch looks the name up a second time.
application_lookup_twice(r) ==
    /\ pc[r] = "application_render"
    /\ IF Truthy(local[r])
       THEN /\ Return(r, "app.html", [package |-> local[r][1]])
            /\ UNCHANGED reg_calls
       ELSE /\ Return(r, "error.html",
                      [code |-> "APP-404",
                       description |-> AppNotFound(args_get(r, "package"))])
            /\ reg_calls' = [reg_calls EXCEPT ![r] = Append(@, "package_by_name")]
    /\ UNCHANGED <<HandlerFrame, outcome, local>>

\* application(): if package: ... else: ...
application(r) ==
    /\ pc[r] = "application_render"
    /\ IF Truthy(local[r])
       THEN Return(r, "app.html", [package |-> local[r][1]])
       ELSE Return(r, "error.html",
                   [code |-> "APP-404",
                    description |-> AppNotFound(args_get(r, "package"))])
    /\ UNCHANGED <<HandlerFrame, outcome, local, reg_calls>>

\* @app.errorhandler(404)
page_not_found_404(r) ==
    /\ pc[r] = "abort404"
    /\ Return(r, "error.html",
              [code |-> "HTTP-404",
               description |-> <<"Page could not be found. This is not where the shop is :(">>])
    /\ UNCHANGED <<HandlerFrame, outcome, local, reg_calls>>

\* Mutant: the 500 handler drops the registry's packages to force a reload.
page_not_found_500_reload(r) ==
    /\ pc[r] = "abort500"
    /\ Return(r, "error.html",
              [code |-> "HTTP-500",
               description |-> <<"Something went wrong on the shop's server. Please report this event!">>])
    /\ OpenShopChannel' = [OpenShopChannel EXCEPT !.packages = <<>>]
    /\ UNCHANGED <<proc, load_calls, arrivals, req, errors_before, outcome, local, reg_calls>>

\* @app.errorhandler(500)
page_not_found_500(r) ==
    /\ pc[r] = "abort500"
    /\ Return(r, "error.html",
              [code |-> "HTTP-500",
               description |-> <<"Something went wrong on the shop's server. Please report this event!">>])
    /\ UNCHANGED <<HandlerFrame, outcome, local, reg_calls>>

Next ==
    \/ construct
    \/ load_packages
    \/ run
    \/ \E r \in ReqIds : Accept(r)
    \/ \E r \in ReqIds : welcome(r)
    \/ \E r \in ReqIds : home_get_packages(r)
    \/ \E r \in ReqIds : home(r)
    \/ \E r \in ReqIds : apps_get_packages(r)
    \/ \E r \in ReqIds : apps(r)
    \/ \E r \in ReqIds : patches(r)
    \/ \E r \in ReqIds : application_package_by_name(r)
    \/ \E r \in ReqIds : application(r)
    \/ \E r \in ReqIds : page_not_found_404(r)
    \/ \E r \in ReqIds : page_not_found_500(r)

Spec == Init /\ [][Next]_vars

(***************************************************************************)
(* Properties                                                              *)
(***************************************************************************)
Done(r) == pc[r] = "done"
Body(r) == response[r].body
Returned(r) == outcome[r] = "returned"
HasParam(r) == "package" \in DOMAIN req[r].args

\* The registry holds a package with that internal name.
Present(name) ==
    \E i \in 1..Len(OpenShopChannel.packages) :
        OpenShopChannel.packages[i].internal_name = name

\* The first package of the registry with that internal name.
FirstNamed(name) ==
    LET pk == OpenShopChannel.packages
        i == CHOOSE k \in 1..Len(pk) :
                /\ pk[k].internal_name = name
                /\ \A j \in 1..(k - 1) : pk[j].internal_name /= name
    IN  pk[i]

\* The response a request gets when it is the only one the server handles:
\* the view run from start to end against the registry, raised telling
\* whether its registry call raised.
ServedAlone(q, raised) ==
    LET pk == OpenShopChannel.packages
        page(t, c) == [status |-> 200, body |-> [template |-> t, context |-> c]]
        name == IF "package" \in DOMAIN q.args THEN q.args.package ELSE "None"
    IN  CASE q.path \notin { "/", "/home", "/apps", "/patches", "/app" } ->
               page("error.html",
                    [code |-> "HTTP-404",
                     description |-> <<"Page could not be found. This is not where the shop is :(">>])
          [] q.path \in { "/home", "/apps", "/app" } /\ raised ->
               page("error.html",
                    [code |-> "HTTP-500",
                     description |-> <<"Something went wrong on the shop's server. Please report this event!">>])
          [] q.path = "/" -> page("welcome.html", [k \in {} |-> ""])
          [] q.path = "/home" -> page("home.html", [packages |-> pk])
          [] q.path = "/apps" -> page("list.html", [packages |-> pk])
          [] q.path = "/patches" ->
               page("warning.html", [code |-> "PATCH-WARN", description |-> <<PatchWarning>>])
          [] OTHER ->
               IF "package" \in DOMAIN q.args /\ Present(q.args.package)
               THEN page("app.html", [package |-> FirstNamed(q.args.package)])
               ELSE page("error.html",
                         [code |-> "APP-404",
                          description |-> << "The app \"", name,
                                             "\" (Internal Name) could not be found." >>])

\* C1: a GET /app whose 'package' parameter names a package of the registry,
\* and whose lookup returned, is answered with status 200 and app.html
\* rendered with exactly that package; it is never the APP-404 page.
C1_FoundRendersDetail ==
    \A r \in ReqIds :
        (Done(r) /\ req[r].path = "/app" /\ Returned(r) /\ HasParam(r)
              /\ Present(req[r].args.package))
        => /\ response[r].status = 200
           /\ Body(r).template = "app.html"
           /\ Body(r).context = [package |-> FirstNamed(req[r].args.package)]
           /\ Body(r).context.package.internal_name = req[r].args.package

C1_Witness ==
    \E r \in ReqIds :
        /\ Done(r) /\ req[r].path = "/app" /\ Returned(r) /\ HasParam(r)
        /\ Present(req[r].args.package)
        /\ Len(OpenShopChannel.packages) = 2
        /\ OpenShopChannel.packages[2].internal_name = req[r].args.package

\* C2: a GET /app whose 'package' parameter is absent, empty or names no
\* package of the registry, and whose lookup returned, is answered with
\* status 200 and the error page with code APP-404 whose description embeds
\* the requested name as sent (the text None when the parameter is omitted).
C2_AbsentRendersApp404 ==
    \A r \in ReqIds :
        (Done(r) /\ req[r].path = "/app" /\ Returned(r)
              /\ (HasParam(r) => ~Present(req[r].args.package)))
        => /\ response[r].status = 200
           /\ Body(r).template = "error.html"
           /\ Body(r).context.code = "APP-404"
           /\ Len(Body(r).context.description) = 3
           /\ Body(r).context.description[2] =
                 (IF HasParam(r) THEN req[r].args.package ELSE "None")

C2_Witness ==
    /\ \E r \in ReqIds :
          /\ Done(r) /\ req[r].path = "/app" /\ Returned(r)
          /\ ~HasParam(r)
          /\ Body(r).template = "error.html"
    /\ \E r \in ReqIds :
          /\ Done(r) /\ req[r].path = "/app" /\ Returned(r)
          /\ HasParam(r) /\ req[r].args.package \in { "", "nonexistent" }
          /\ Body(r).template = "error.html"
          /\ OpenShopChannel.packages /= <<>>

\* C3 (as claimed): a request to a path outside the five routes is answered
\* with status 404 and the error page with code HTTP-404.
C3_UnmatchedPathIs404 ==
    \A r \in ReqIds :
        (Done(r) /\ req[r].path \notin { "/", "/home", "/apps", "/patches", "/app" })
        => /\ response[r].status = 404
           /\ Body(r).template = "error.html"
           /\ Body(r).context.code = "HTTP-404"

\* C4 (as claimed): a request whose registry call raised is answered with
\* status 500 and the error page with code HTTP-500.
C4_RegistryFaultIs500 ==
    \A r \in ReqIds :
        (Done(r) /\ outcome[r] = "raised")
        => /\ response[r].status = 500
           /\ Body(r).template = "error.html"
           /\ Body(r).context.code = "HTTP-500"

\* C5: GET /home and GET /apps, when get_packages returned, are answered with
\* status 200 and home.html / list.html rendered with exactly the registry's
\* package sequence, so as many packages as the registry holds.
C5_ListsRenderRegistry ==
    \A r \in ReqIds :
        (Done(r) /\ req[r].path \in { "/home", "/apps" } /\ Returned(r))
        => /\ response[r].status = 200
           /\ Body(r).template = (IF req[r].path = "/home" THEN "home.html" ELSE "list.html")
           /\ Body(r).context = [packages |-> OpenShopChannel.packages]
           /\ Len(Body(r).context.packages) = Len(OpenShopChannel.packages)

C5_Witness ==
    /\ \E r \in ReqIds :
          /\ Done(r) /\ req[r].path = "/home" /\ Returned(r)
          /\ Len(Body(r).context.packages) = 2
    /\ \E r \in ReqIds :
          /\ Done(r) /\ req[r].path = "/apps" /\ Returned(r)

\* C6: GET /patches is always answered with status 200 and warning.html with
\* code PATCH-WARN and the fixed disclaimer, the same for every query string
\* and registry content, and makes no registry call.
C6_PatchesFixedPage ==
    /\ \A r \in ReqIds :
          (req[r].path = "/patches" => reg_calls[r] = <<>>)
          /\ ((Done(r) /\ req[r].path = "/patches")
              => /\ response[r].status = 200
                 /\ Body(r).template = "warning.html"
                 /\ Body(r).context = [code |-> "PATCH-WARN", description |-> <<PatchWarning>>])
    /\ \A r, s \in ReqIds :
          (Done(r) /\ Done(s) /\ req[r].path = "/patches" /\ req[s].path = "/patches")
          => response[r] = response[s]

C6_Witness ==
    \E r, s \in ReqIds :
        /\ Done(r) /\ Done(s)
        /\ req[r].path = "/patches" /\ req[s].path = "/patches"
        /\ req[r].args /= req[s].args
        /\ OpenShopChannel.packages /= <<>>

\* C7: load_packages is invoked exactly once, before the server accepts a
\* request: every request is handled against a loaded registry, and after a
\* failed load no request is ever accepted.
C7_LoadOnceBeforeServing ==
    /\ load_calls <= 1
    /\ (proc \in { "loaded", "serving" } => (load_calls = 1 /\ OpenShopChannel.loaded))
    /\ (proc = "crashed" => (load_calls = 1 /\ ~OpenShopChannel.loaded))
    /\ \A r \in ReqIds :
          (pc[r] /= "idle" => (proc = "serving" /\ OpenShopChannel.loaded /\ load_calls = 1))
    /\ (arrivals > 0 => proc = "serving")

C7_Witness ==
    \E r \in ReqIds :
        /\ Done(r) /\ reg_calls[r] /= <<>>
        /\ load_calls = 1 /\ proc = "serving"

\* Everything the process shares between requests.
Shared == <<proc, OpenShopChannel, load_calls>>

\* C8: once the server is serving, no step of any view or error handler
\* changes the registry, and under every interleaving each finished request
\* has the response it would get if it were served alone.
C8_ReadOnlyAndIsolated ==
    /\ [][proc = "serving" => OpenShopChannel' = OpenShopChannel]_vars
    /\ [](\A r \in ReqIds :
             Done(r) => response[r] = ServedAlone(req[r], outcome[r] = "raised"))

\* Request 2 arrived while request 1 was between its registry call and its
\* render, and finished first.
C8_Witness ==
    /\ pc[1] \in { "home_render", "apps_render", "application_render" }
    /\ Done(2)
    /\ req[2].path \in { "/home", "/apps", "/app" }
    /\ OpenShopChannel.packages /= <<>>

\* The registry methods a request to that path calls.
CallsOf(path) ==
    CASE path \in { "/home", "/apps" } -> << "get_packages" >>
      [] path = "/app"                 -> << "package_by_name" >>
      [] OTHER                         -> << >>

\* C9: every request makes at most one registry call and, once finished, has
\* made exactly one render call: none for / and /patches, one get_packages
\* for /home and /apps, one package_by_name for /app, which renders exactly
\* one of app.html and error.html.
C9_OneCallOneRender ==
    \A r \in ReqIds :
        /\ Len(reg_calls[r]) <= 1
        /\ Len(rendered[r]) <= 1
        /\ Done(r) =>
              /\ reg_calls[r] = CallsOf(req[r].path)
              /\ Len(rendered[r]) = 1
              /\ rendered[r][1] = Body(r).template
              /\ (req[r].path = "/app" => rendered[r][1] \in { "app.html", "error.html" })

C9_Witness ==
    /\ \E r \in ReqIds : Done(r) /\ req[r].path = "/app" /\ rendered[r] = << "app.html" >>
    /\ \E r \in ReqIds : Done(r) /\ req[r].path = "/app" /\ rendered[r] = << "error.html" >>

\* Everything request r owns.
Own(r) == <<pc[r], req[r], outcome[r], local[r], reg_calls[r], rendered[r], response[r]>>

\* C10: a request that ends in an error page (APP-404, HTTP-404, HTTP-500)
\* is final and is not retried, the step that ends it changes nothing shared
\* and nothing of another request, and a request that arrives after such
\* errors has the response it would have had without them.
C10_ErrorsLeaveNoTrace ==
    /\ [][\A r \in ReqIds :
            /\ (IsError(r) => (Own(r))' = Own(r))
            /\ ((~IsError(r) /\ (IsError(r))')
                  => /\ Shared' = Shared
                     /\ Len(reg_calls'[r]) <= 1
                     /\ \A s \in ReqIds \ {r} : (Own(s))' = Own(s))]_vars
    /\ [](\A r \in ReqIds :
             (Done(r) /\ errors_before[r] > 0)
             => response[r] = ServedAlone(req[r], outcome[r] = "raised"))

C10_Witness ==
    \E r \in ReqIds :
        /\ Done(r) /\ errors_before[r] > 0
        /\ req[r].path \in { "/home", "/app" } /\ Returned(r)
        /\ ~IsError(r)
        /\ OpenShopChannel.packages /= <<>>
====
